---------------------------- MODULE Spec2Model ----------------------------
(***************************************************************************)
(* A model of gaemail (main.py): the comment stripper remove_comments, the *)
(* Authentication-Results verifier verify_headers (with the header split   *)
(* of cgi.parse_header it relies on) and the request handlers deflect and  *)
(* sink.                                                                   *)
(*                                                                         *)
(* A Python string is a sequence of one-character strings; indices are     *)
(* 0-based as in the source, so content[i] of the source is content[i+1]   *)
(* here and the slice content[a:b] is SubSeq(content, a+1, b).             *)
(***************************************************************************)
EXTENDS Integers, Sequences, FiniteSets, TLC

VARIABLES
    pc,               \* where the modelled call or server stands
    content,          \* remove_comments: the argument (a Python value)
    stripped,         \* remove_comments: the value returned for content
    restripped,       \* remove_comments: the value returned for stripped
    headers,          \* verify_headers: argument headers (a Python value)
    method,           \* verify_headers: argument method (a Python value)
    accepted,         \* verify_headers: argument accepted (a Python value)
    authserv_domain,  \* verify_headers: argument authserv_domain
    verdict,          \* verify_headers: "True", "False", "TypeError" or ""
    handled,          \* server: the POST requests handled so far, in order
    attempts,         \* server: calls of mail.send_mail_to_admins so far
    over_quota,       \* server: OverQuotaError caught and logged so far
    response,         \* server: the response to the last request
    transport,        \* server: what the send of the last request met
    text_body,        \* server: the text body given to the last send
    mail_message,     \* get_mail_headers: argument mail_message
    header_name,      \* get_mail_headers: argument header_name
    values            \* get_mail_headers: the value returned

vars == <<pc, content, stripped, restripped,
          headers, method, accepted, authserv_domain, verdict,
          handled, attempts, over_quota, response, transport, text_body,
          mail_message, header_name, values>>

stripVars == <<content, stripped, restripped>>
verifyVars == <<headers, method, accepted, authserv_domain, verdict>>
serverVars == <<handled, attempts, over_quota, response, transport, text_body>>
headerVars == <<mail_message, header_name, values>>

---------------------------------------------------------------------------
(* Bounds of the model.                                                    *)

\* longest argument of remove_comments that is enumerated
MaxLen == 5
\* longest list of header values that is enumerated
MaxHeaders == 2
\* number of requests the server handles
MaxRequests == 2
\* most header fields of a message given to get_mail_headers
MaxFields == 2

---------------------------------------------------------------------------
(* Python values: a string, a list, None or an int.                        *)

Str(s) == [type |-> "str", chars |-> s, items |-> <<>>]
List(xs) == [type |-> "list", chars |-> <<>>, items |-> xs]
None == [type |-> "NoneType", chars |-> <<>>, items |-> <<>>]
Int42 == [type |-> "int", chars |-> <<>>, items |-> <<>>]

\* isinstance(v, str)
IsStr(v) == v.type = "str"

\* len(v) is defined for strings and lists, and raises TypeError otherwise
HasLen(v) == v.type \in {"str", "list"}
PyLen(v) == IF v.type = "str" THEN Len(v.chars) ELSE Len(v.items)

\* iter(v): a list yields its items, a string its characters as strings
IsIterable(v) == v.type \in {"str", "list"}
Iterate(v) ==
    IF v.type = "str"
    THEN [i \in 1..Len(v.chars) |-> Str(<<v.chars[i]>>)]
    ELSE v.items

---------------------------------------------------------------------------
(* Methods of str used by the source.                                      *)

UpperCase == <<"A", "B", "C", "D", "E", "F", "G", "H", "I", "J", "K", "L", "M",
               "N", "O", "P", "Q", "R", "S", "T", "U", "V", "W", "X", "Y", "Z">>
LowerCase == <<"a", "b", "c", "d", "e", "f", "g", "h", "i", "j", "k", "l", "m",
               "n", "o", "p", "q", "r", "s", "t", "u", "v", "w", "x", "y", "z">>

\* the lower-case letter of each upper-case letter
LowerOf == [c \in {UpperCase[k] : k \in 1..Len(UpperCase)} |->
               LowerCase[CHOOSE k \in 1..Len(UpperCase) : UpperCase[k] = c]]

LowerChar(c) == IF c \in DOMAIN LowerOf THEN LowerOf[c] ELSE c

\* s.lower()
Lower(s) == [k \in 1..Len(s) |-> LowerChar(s[k])]

\* the upper-case letter of each lower-case letter
UpperOf == [c \in {LowerCase[k] : k \in 1..Len(LowerCase)} |->
               UpperCase[CHOOSE k \in 1..Len(LowerCase) : LowerCase[k] = c]]

UpperChar(c) == IF c \in DOMAIN UpperOf THEN UpperOf[c] ELSE c

\* s.upper()
Upper(s) == [k \in 1..Len(s) |-> UpperChar(s[k])]

\* c.isspace()
IsSpace(c) == c \in {" ", "\t", "\n", "\r", "\f"}

\* s[a:b] for 0 <= a, b <= len(s)
Slice(s, a, b) == SubSeq(s, a + 1, b)

\* s.endswith(suffix)
EndsWith(s, suffix) ==
    /\ Len(suffix) <= Len(s)
    /\ Slice(s, Len(s) - Len(suffix), Len(s)) = suffix

---------------------------------------------------------------------------
(* remove_comments (main.py 56-92).                                        *)

RECURSIVE ScanStart(_, _, _)
\* the first loop: the index at which it stops, from index i with the
\* given nesting count
ScanStart(s, i, nesting_count) ==
    IF ~(i < Len(s)) THEN i
    ELSE IF s[i + 1] = "(" THEN ScanStart(s, i + 1, nesting_count + 1)
    ELSE IF s[i + 1] = ")" THEN ScanStart(s, i + 1, nesting_count - 1)
    ELSE IF (~IsSpace(s[i + 1])) /\ (nesting_count <= 0) THEN i
    ELSE ScanStart(s, i + 1, nesting_count)

RECURSIVE ScanEnd(_, _)
\* the second loop: the index at which it stops, from index i
ScanEnd(s, i) ==
    IF (i < Len(s)) /\ (~IsSpace(s[i + 1])) /\ (s[i + 1] # "(")
    THEN ScanEnd(s, i + 1)
    ELSE i

\* a plausible slip: the content is cut at whitespace only, not at "("
RECURSIVE ScanEndSpaceOnly(_, _)
ScanEndSpaceOnly(s, i) ==
    IF (i < Len(s)) /\ (~IsSpace(s[i + 1]))
    THEN ScanEndSpaceOnly(s, i + 1)
    ELSE i

\* a plausible slip: the nesting count is ignored when looking for the start
RECURSIVE ScanStartFlat(_, _)
ScanStartFlat(s, i) ==
    IF ~(i < Len(s)) THEN i
    ELSE IF s[i + 1] \in {"(", ")"} \/ IsSpace(s[i + 1])
    THEN ScanStartFlat(s, i + 1)
    ELSE i

remove_comments_cut_at_space(s) ==
    IF Len(s) <= 0 THEN <<>>
    ELSE LET start_index == ScanStart(s, 0, 0)
             end_index == ScanEndSpaceOnly(s, start_index)
         IN Slice(s, start_index, end_index)

remove_comments_flat(s) ==
    IF Len(s) <= 0 THEN <<>>
    ELSE LET start_index == ScanStartFlat(s, 0)
             end_index == ScanEnd(s, start_index)
         IN Slice(s, start_index, end_index)

\* a plausible slip: the start needs a negative nesting count (< for <=)
RECURSIVE ScanStartStrict(_, _, _)
ScanStartStrict(s, i, nesting_count) ==
    IF ~(i < Len(s)) THEN i
    ELSE IF s[i + 1] = "(" THEN ScanStartStrict(s, i + 1, nesting_count + 1)
    ELSE IF s[i + 1] = ")" THEN ScanStartStrict(s, i + 1, nesting_count - 1)
    ELSE IF (~IsSpace(s[i + 1])) /\ (nesting_count < 0) THEN i
    ELSE ScanStartStrict(s, i + 1, nesting_count)

remove_comments_strict(s) ==
    IF Len(s) <= 0 THEN <<>>
    ELSE LET start_index == ScanStartStrict(s, 0, 0)
             end_index == ScanEnd(s, start_index)
         IN Slice(s, start_index, end_index)

\* remove_comments applied to the characters of a string
remove_comments(s) ==
    IF Len(s) <= 0 THEN <<>>
    ELSE LET start_index == ScanStart(s, 0, 0)
             end_index == ScanEnd(s, start_index)
         IN Slice(s, start_index, end_index)

---------------------------------------------------------------------------
(* cgi.parse_header, which verify_headers calls at main.py 137.            *)

RECURSIVE SkipSpace(_, _)
\* the first index >= i that holds no whitespace, or len(s)
SkipSpace(s, i) ==
    IF i < Len(s) /\ IsSpace(s[i + 1]) THEN SkipSpace(s, i + 1) ELSE i

RECURSIVE SkipSpaceBack(_, _)
\* the least j <= i such that s[j:i] is whitespace only
SkipSpaceBack(s, i) ==
    IF i > 0 /\ IsSpace(s[i]) THEN SkipSpaceBack(s, i - 1) ELSE i

\* s.strip(): leading and trailing whitespace removed
Strip(s) ==
    LET first == SkipSpace(s, 0)
    IN IF first = Len(s) THEN <<>> ELSE Slice(s, first, SkipSpaceBack(s, Len(s)))

\* s.find(c, from): the first index >= from holding character c, or -1
Find(s, c, from) ==
    LET hits == {i \in from..(Len(s) - 1) : s[i + 1] = c}
    IN IF hits = {} THEN -1 ELSE CHOOSE i \in hits : \A j \in hits : i <= j

\* s.count(c, 0, end)
CountChar(s, c, end) == Cardinality({i \in 0..(end - 1) : s[i + 1] = c})

\* s.count('\\"', 0, end): backslash-quote pairs inside s[0:end]
CountEscapedQuote(s, end) ==
    Cardinality({i \in 0..(end - 2) : s[i + 1] = "\\" /\ s[i + 2] = "\""})

RECURSIVE Replace2(_, _, _, _)
\* s.replace(ab, r) for a two-character pattern ab and a single character r
Replace2(s, a, b, r) ==
    IF Len(s) < 2 THEN s
    ELSE IF s[1] = a /\ s[2] = b
         THEN <<r>> \o Replace2(SubSeq(s, 3, Len(s)), a, b, r)
         ELSE <<s[1]>> \o Replace2(Tail(s), a, b, r)

RECURSIVE ParamEnd(_, _)
\* _parseparam's inner loop: the end of the parameter, skipping every ";"
\* that has an odd number of unescaped double quotes before it
ParamEnd(s, end) ==
    IF end > 0 /\ (CountChar(s, "\"", end) - CountEscapedQuote(s, end)) % 2 = 1
    THEN ParamEnd(s, Find(s, ";", end + 1))
    ELSE end

RECURSIVE ParseParam(_)
\* _parseparam: the stripped pieces of s, which starts with ";"
ParseParam(s) ==
    IF Len(s) >= 1 /\ s[1] = ";"
    THEN LET rest == Tail(s)
             found == ParamEnd(rest, Find(rest, ";", 0))
             end == IF found < 0 THEN Len(rest) ELSE found
         IN <<Strip(Slice(rest, 0, end))>> \o ParseParam(Slice(rest, end, Len(rest)))
    ELSE <<>>

\* the value of a parameter: stripped, and unquoted when in double quotes
ParamValue(raw) ==
    LET value == Strip(raw)
    IN IF Len(value) >= 2 /\ value[1] = "\"" /\ value[Len(value)] = "\""
       THEN Replace2(Replace2(Slice(value, 1, Len(value) - 1), "\\", "\\", "\\"),
                     "\\", "\"", "\"")
       ELSE value

\* the (name, value) of each piece that holds "=", in the order of the text
ParamPairs(parts) ==
    LET holds == {k \in 1..Len(parts) : Find(parts[k], "=", 0) >= 0}
        Pair(p) == LET i == Find(p, "=", 0)
                   IN [name |-> Lower(Strip(Slice(p, 0, i))),
                       value |-> ParamValue(Slice(p, i + 1, Len(p)))]
        RECURSIVE Collect(_)
        Collect(k) ==
            IF k > Len(parts) THEN <<>>
            ELSE (IF k \in holds THEN <<Pair(parts[k])>> ELSE <<>>) \o Collect(k + 1)
    IN Collect(1)

\* pdict[name] = value for each pair in turn: a later assignment of a name
\* replaces the earlier one.  The dict is the set of its (name, value) items.
DictOf(pairs) ==
    LET keep == {k \in 1..Len(pairs) :
                    \A j \in (k + 1)..Len(pairs) : pairs[j].name # pairs[k].name}
    IN {pairs[k] : k \in keep}

\* cgi.parse_header(line): the leading piece and the dict of the parameters
parse_header(line) ==
    LET parts == ParseParam(<<";">> \o line)
    IN [key |-> parts[1], pdict |-> DictOf(ParamPairs(Tail(parts)))]

---------------------------------------------------------------------------
(* verify_headers (main.py 94-152).  The outcome is "True", "False" or     *)
(* "TypeError" (len() of a value that has none, or iteration over a value  *)
(* that is not iterable).                                                  *)

\* main.py 125-127
AcceptedSet(acc) ==
    LET results == Iterate(acc)
    IN {Lower(results[k].chars) :
           k \in {j \in 1..Len(results) : IsStr(results[j]) /\ Len(results[j].chars) > 0}}

\* a plausible slip: the domain test is left out
HeaderAcceptsAnyDomain(header, m, accepted_set, domain) ==
    /\ IsStr(header)
    /\ LET parsed == parse_header(header.chars)
       IN \E item \in parsed.pdict :
             /\ Lower(remove_comments(item.name)) = m
             /\ Lower(remove_comments(item.value)) \in accepted_set

\* main.py 135-151: one round of the loop over headers returns True.
\* m and domain are the lowercased method and authserv_domain.
HeaderAccepts(header, m, accepted_set, domain) ==
    /\ IsStr(header)
    /\ LET parsed == parse_header(header.chars)
           authserv_id == Lower(remove_comments(parsed.key))
       IN /\ EndsWith(authserv_id, domain)
          /\ \E item \in parsed.pdict :
                /\ Lower(remove_comments(item.name)) = m
                /\ Lower(remove_comments(item.value)) \in accepted_set

\* a plausible slip: only the first header value is looked at
AnyHeaderAcceptsFirstOnly(hs, m, accepted_set, domain) ==
    Len(hs) >= 1 /\ HeaderAccepts(hs[1], m, accepted_set, domain)

\* main.py 134-152: the loop over headers
AnyHeaderAccepts(hs, m, accepted_set, domain) ==
    \E k \in 1..Len(hs) : HeaderAccepts(hs[k], m, accepted_set, domain)

\* a plausible slip: the guard on the type of method is left out, so that
\* len() is called on a value that has none
verify_headers_no_method_guard(hs, m, acc, domain) ==
    IF ~HasLen(hs) THEN "TypeError"
    ELSE IF PyLen(hs) <= 0 THEN "False"
    ELSE IF ~IsStr(m) THEN "TypeError"
    ELSE IF Len(m.chars) <= 0 THEN "False"
    ELSE IF ~IsIterable(acc) THEN "TypeError"
    ELSE IF AcceptedSet(acc) = {} THEN "False"
    ELSE IF ~IsStr(domain) THEN "False"
    ELSE IF AnyHeaderAccepts(Iterate(hs), Lower(m.chars), AcceptedSet(acc),
                             Lower(domain.chars))
         THEN "True" ELSE "False"

\* a plausible slip: the guard on authserv_domain is left out, so that
\* lower() is called on a value that has no such method
verify_headers_no_domain_guard(hs, m, acc, domain) ==
    IF ~HasLen(hs) THEN "TypeError"
    ELSE IF PyLen(hs) <= 0 THEN "False"
    ELSE IF ~IsStr(m) THEN "False"
    ELSE IF Len(m.chars) <= 0 THEN "False"
    ELSE IF ~IsIterable(acc) THEN "TypeError"
    ELSE IF AcceptedSet(acc) = {} THEN "False"
    ELSE IF ~IsStr(domain) THEN "AttributeError"
    ELSE IF AnyHeaderAccepts(Iterate(hs), Lower(m.chars), AcceptedSet(acc),
                             Lower(domain.chars))
         THEN "True" ELSE "False"

verify_headers(hs, m, acc, domain) ==
    IF ~HasLen(hs) THEN "TypeError"
    ELSE IF PyLen(hs) <= 0 THEN "False"
    ELSE IF ~IsStr(m) THEN "False"
    ELSE IF Len(m.chars) <= 0 THEN "False"
    ELSE IF ~IsIterable(acc) THEN "TypeError"
    ELSE IF AcceptedSet(acc) = {} THEN "False"
    ELSE IF ~IsStr(domain) THEN "False"
    ELSE IF AnyHeaderAccepts(Iterate(hs), Lower(m.chars), AcceptedSet(acc),
                             Lower(domain.chars))
         THEN "True" ELSE "False"

---------------------------------------------------------------------------
(* Inputs that are enumerated.                                             *)

RECURSIVE StringsUpTo(_, _)
\* every string over alphabet of length at most n
StringsUpTo(alphabet, n) ==
    IF n = 0 THEN {<<>>}
    ELSE LET shorter == StringsUpTo(alphabet, n - 1)
         IN shorter \cup {Append(s, c) : s \in shorter, c \in alphabet}

StripAlphabet == {"a", "(", ")", " "}

StripInputs ==
    {Str(s) : s \in StringsUpTo(StripAlphabet, MaxLen)} \cup {None, Int42, List(<<>>)}

---------------------------------------------------------------------------
(* Calls of remove_comments: one call, then a call on what it returned.    *)

\* the server takes no part in a call of remove_comments or verify_headers
ServerIdle ==
    /\ handled = <<>>
    /\ attempts = 0
    /\ over_quota = 0
    /\ response = "none"
    /\ transport = "none"
    /\ text_body = <<>>

\* no call of get_mail_headers is under way
HeadersIdle ==
    /\ mail_message = [kind |-> "NoneType", fields |-> <<>>]
    /\ header_name = None
    /\ values = None

InitStrip ==
    /\ pc = "strip"
    /\ ServerIdle
    /\ HeadersIdle
    /\ content \in StripInputs
    /\ stripped = <<>>
    /\ restripped = <<>>
    /\ headers = None
    /\ method = None
    /\ accepted = None
    /\ authserv_domain = None
    /\ verdict = ""

\* main.py 66-67: a non-string argument raises TypeError
StripRaises ==
    /\ pc = "strip"
    /\ ~IsStr(content)
    /\ pc' = "TypeError"
    /\ UNCHANGED <<stripVars, verifyVars, serverVars, headerVars>>

\* main.py 68-92
StripCall ==
    /\ pc = "strip"
    /\ IsStr(content)
    /\ stripped' = remove_comments(content.chars)
    /\ pc' = "stripped"
    /\ UNCHANGED <<content, restripped, verifyVars, serverVars, headerVars>>

\* remove_comments called on its own result
StripAgain ==
    /\ pc = "stripped"
    /\ restripped' = remove_comments(stripped)
    /\ pc' = "restripped"
    /\ UNCHANGED <<content, stripped, verifyVars, serverVars, headerVars>>

NextStrip == StripRaises \/ StripCall \/ StripAgain

SpecStrip == InitStrip /\ [][NextStrip]_vars

---------------------------------------------------------------------------
(* Calls of verify_headers.                                                *)

\* main.py 23: _DEFAULT_ACCEPT
DEFAULT_ACCEPT == List(<<Str(<<"p", "a", "s", "s">>)>>)

\* main.py 95: the default of authserv_domain
DEFAULT_DOMAIN == Str(<<"m", "x", ".", "g", "o", "o", "g", "l", "e", ".", "c", "o", "m">>)

\* arguments named by the scenarios
SPF == Str(<<"s", "p", "f">>)
DKIM == Str(<<"d", "k", "i", "m">>)
POLICY == Str(<<"p", "o", "l", "i", "c", "y">>)
ACCEPT_TIMESTAMP == List(<<Str(<<"1", "3", "6", "2", "4", "7", "1", "4", "6", "2">>)>>)
EXAMPLE_DOMAIN == Str(<<"E", "x", "a", "m", "p", "l", "e", ".", "C", "O", "M">>)

\* the header value of the comment-heavy message
COMMENT_HEAVY ==
    Str(<<"m", "x", ".", "g", "o", "o", "g", "l", "e", ".", "c", "o", "m", " ", "(", "f", "o", "o", "b", "a", "r", ")", " ", "1", " ", "(", "b", "a", "z", ")", ";", " ", "d", "k", "i", "m", " ", "(", "B", "e", "c", "a", "u", "s", "e", " ", "I", " ", "l", "i", "k", "e", " ", "i", "t", ")", " ", "/", " ", "1", " ", "(", "O", "n", "e", " ", "y", "a", "y", ")", " ", "=", " ", "(", "w", "a", "i", "t", " ", "f", "o", "r", " ", "i", "t", ")", " ", "p", "a", "s", "s", " ", "p", "o", "l", "i", "c", "y", " ", "(", "A", " ", "d", "o", "t", ")", " ", ".", " ", "e", "x", "p", "i", "r", "e", "d", " ", "(", "s", "u", "r", "p", "r", "i", "s", "e", "d", ")", " ", "=", " ", "(", "a", "s", ")", " ", "1", "3", "6", "2", "4", "7", "1", "4", "6", "2">>)

\* header values of the tests (test_main.py 247, 268-269)
GOOGLE_SPF_PASS == Str(<<"m", "x", ".", "g", "o", "o", "g", "l", "e", ".", "c", "o", "m", ";", " ", "s", "p", "f", "=", "p", "a", "s", "s", " ", "s", "m", "t", "p", ".", "m", "a", "i", "l", "f", "r", "o", "m", "=", "e", "x", "a", "m", "p", "l", "e", ".", "n", "e", "t">>)
EXAMPLE_SPF_PASS == Str(<<"e", "x", "a", "m", "p", "l", "e", ".", "c", "o", "m", ";", " ", "s", "p", "f", "=", "p", "a", "s", "s", " ", "s", "m", "t", "p", ".", "m", "a", "i", "l", "f", "r", "o", "m", "=", "e", "x", "a", "m", "p", "l", "e", ".", "n", "e", "t">>)

\* a sub-service of the domain; a piece without "="; the same method twice,
\* the accepted result last, in upper case and between comments
GMR_DKIM_PASS == Str(<<"g", "m", "r", "-", "m", "x", ".", "g", "o", "o", "g", "l", "e", ".", "c", "o", "m", ";", " ", "n", "o", "n", "e", ";", " ", "d", "k", "i", "m", "=", "f", "a", "i", "l", ";", " ", "D", "K", "I", "M", " ", "=", " ", "(", "c", ")", " ", "P", "a", "s", "s", " ", "(", "o", "k", ")">>)

\* the same method twice, the accepted result first
SPF_PASS_THEN_FAIL == Str(<<"m", "x", ".", "g", "o", "o", "g", "l", "e", ".", "c", "o", "m", ";", " ", "s", "p", "f", "=", "p", "a", "s", "s", ";", " ", "s", "p", "f", "=", "f", "a", "i", "l">>)

\* a ";" inside double quotes in the authserv-id, and a quoted value
QUOTED_DKIM_PASS == Str(<<"a", "\"", ";", "\"", "m", "x", ".", "g", "o", "o", "g", "l", "e", ".", "c", "o", "m", ";", " ", "d", "k", "i", "m", "=", "\"", "p", "a", "s", "s", "\"">>)

\* an empty authserv-id
NO_ID_SPF_PASS == Str(<<";", " ", "s", "p", "f", "=", "p", "a", "s", "s">>)

\* header values that are enumerated, with an element that is not a string
HeaderPool ==
    { GOOGLE_SPF_PASS, EXAMPLE_SPF_PASS, GMR_DKIM_PASS, SPF_PASS_THEN_FAIL,
      QUOTED_DKIM_PASS, NO_ID_SPF_PASS, COMMENT_HEAVY, None }

RECURSIVE ListsUpTo(_, _)
\* every list of at most n elements of pool
ListsUpTo(pool, n) ==
    IF n = 0 THEN {<<>>}
    ELSE LET shorter == ListsUpTo(pool, n - 1)
         IN shorter \cup {Append(xs, x) : xs \in shorter, x \in pool}

HeadersArgs ==
    {List(hs) : hs \in ListsUpTo(HeaderPool, MaxHeaders)} \cup {None, Int42, Str(<<>>)}

MethodArgs == {SPF, DKIM, Str(<<"D", "K", "I", "M">>), POLICY, Str(<<>>), None}

AcceptedArgs ==
    { DEFAULT_ACCEPT,
      ACCEPT_TIMESTAMP,
      List(<<None, Str(<<>>)>>),
      List(<<>>),
      Int42 }

DomainArgs == {DEFAULT_DOMAIN, EXAMPLE_DOMAIN, Str(<<>>), None}

InitVerify ==
    /\ pc = "verify"
    /\ ServerIdle
    /\ HeadersIdle
    /\ headers \in HeadersArgs
    /\ method \in MethodArgs
    /\ accepted \in AcceptedArgs
    /\ authserv_domain \in DomainArgs
    /\ verdict = ""
    /\ content = None
    /\ stripped = <<>>
    /\ restripped = <<>>

\* main.py 118-152: the call returns True or False, or raises TypeError
\* (len(headers) at line 118, the iteration over accepted at 125-127)
VerifyCall ==
    /\ pc = "verify"
    /\ verdict' = verify_headers(headers, method, accepted, authserv_domain)
    /\ pc' = IF verdict' = "TypeError" THEN "raised" ELSE "returned"
    /\ UNCHANGED <<headers, method, accepted, authserv_domain, stripVars, serverVars, headerVars>>

NextVerify == VerifyCall

SpecVerify == InitVerify /\ [][NextVerify]_vars

---------------------------------------------------------------------------
(* get_mail_headers (main.py 34-54).                                       *)

\* The first argument is an object of some class.  Of a
\* mail.InboundEmailMessage, fields are the header fields of its original
\* (an email.message.Message); of an email.message.Message, its own header
\* fields; a header field is a pair <<name, value>> of strings, and the
\* fields stand in the order the message declares them.
Object(kind, fields) == [kind |-> kind, fields |-> fields]

\* mail_message.original of a mail.InboundEmailMessage
Original(mail) == Object("Message", mail.fields)

RECURSIVE get_all(_, _)
\* email.message.Message.get_all(name, []): the values of the fields whose
\* name is name whatever the case of the letters, in the order of the fields
get_all(fields, name) ==
    IF fields = <<>> THEN <<>>
    ELSE IF Lower(Head(fields)[1]) = Lower(name)
         THEN <<Str(Head(fields)[2])>> \o get_all(Tail(fields), name)
         ELSE get_all(Tail(fields), name)

\* a plausible slip: get() for get_all(), the first value alone
get_mail_headers_first(mail, name) ==
    LET message == IF mail.kind = "InboundEmailMessage" THEN Original(mail) ELSE mail
    IN IF message.kind # "Message" THEN List(<<>>)
       ELSE IF ~IsStr(name) THEN List(<<>>)
       ELSE LET found == get_all(message.fields, name.chars)
            IN List(IF found = <<>> THEN <<>> ELSE <<Head(found)>>)

get_mail_headers(mail, name) ==
    LET message == IF mail.kind = "InboundEmailMessage" THEN Original(mail) ELSE mail
    IN IF message.kind # "Message" THEN List(<<>>)
       ELSE IF ~IsStr(name) THEN List(<<>>)
       ELSE List(get_all(message.fields, name.chars))

\* main.py 20
AUTHENTICATION_HEADER_NAME == Str(<<"A", "u", "t", "h", "e", "n", "t", "i", "c", "a", "t", "i", "o", "n", "-", "R", "e", "s", "u", "l", "t", "s">>)

---------------------------------------------------------------------------
(* Calls of get_mail_headers.                                              *)

\* the header fields that are enumerated: a header given twice, the second
\* time in other letters, and a header given once
FieldPool ==
    { <<<<"A", "u", "t", "h", "e", "n", "t", "i", "c", "a", "t", "i", "o", "n", "-", "R", "e", "s", "u", "l", "t", "s">>, <<"a", ";", " ", "s", "p", "f", "=", "p", "a", "s", "s">>>>,
      <<<<"a", "u", "t", "h", "e", "n", "t", "i", "c", "a", "t", "i", "o", "n", "-", "r", "e", "s", "u", "l", "t", "s">>, <<"b", ";", " ", "d", "k", "i", "m", "=", "p", "a", "s", "s">>>>,
      <<<<"D", "a", "t", "e">>, <<"F", "r", "i", ",", " ", "F", "e", "b", " ", "1", "5", " ", "2", "0", "0", "2">>>> }

\* the objects given as mail_message: inbound messages and messages of
\* email.message with up to MaxFields header fields, and None, 42, '', []
\* and objects of another class with header fields
MailArgs ==
    { Object(kind, fields) :
        kind \in {"InboundEmailMessage", "Message", "dict"},
        fields \in ListsUpTo(FieldPool, MaxFields) }
    \cup { Object(kind, <<>>) : kind \in {"NoneType", "int", "str", "list"} }

NameArgs ==
    { AUTHENTICATION_HEADER_NAME, Str(<<"d", "a", "t", "e">>), Str(<<"M", "e", "s", "s", "a", "g", "e", "-", "I", "d">>),
      Str(<<>>), None, Int42, List(<<>>) }

InitHeaders ==
    /\ pc = "get"
    /\ ServerIdle
    /\ mail_message \in MailArgs
    /\ header_name \in NameArgs
    /\ values = None
    /\ content = None
    /\ stripped = <<>>
    /\ restripped = <<>>
    /\ headers = None
    /\ method = None
    /\ accepted = None
    /\ authserv_domain = None
    /\ verdict = ""

\* main.py 48-54: the call returns a list
GetCall ==
    /\ pc = "get"
    /\ values' = get_mail_headers(mail_message, header_name)
    /\ pc' = "got"
    /\ UNCHANGED <<mail_message, header_name, stripVars, verifyVars, serverVars>>

NextHeaders == GetCall

SpecHeaders == InitHeaders /\ [][NextHeaders]_vars

---------------------------------------------------------------------------
(* The request handlers deflect and sink (main.py 211-284).                *)

\* an attribute that the inbound message does not have
Absent == [type |-> "absent", chars |-> <<>>, items |-> <<>>]

\* getattr(mail_message, name, default)
GetAttr(value, default) == IF value = Absent THEN default ELSE value

\* mail.is_email_valid, the validator of the mail API (main.py 237): it
\* stands for a fixed predicate on addresses; here an address is accepted
\* when it is a string that is not blank
is_email_valid(address) == IsStr(address) /\ Strip(address.chars) # <<>>

\* a plausible slip: the sender is validated even when reply_to is present
ShouldForwardBySender(message) ==
    LET sender == GetAttr(message.sender, Str(<<>>))
        subject == GetAttr(message.subject, Str(<<>>))
    IN /\ ~( (~IsStr(sender)) \/ (Len(sender.chars) <= 0) \/
             (~IsStr(subject)) \/ (Len(subject.chars) <= 0) )
       /\ is_email_valid(message.sender)

\* main.py 229-238: deflect goes on to build and send the forward
ShouldForward(message) ==
    LET sender == GetAttr(message.sender, Str(<<>>))
        subject == GetAttr(message.subject, Str(<<>>))
    IN /\ ~( (~IsStr(sender)) \/ (Len(sender.chars) <= 0) \/
             (~IsStr(subject)) \/ (Len(subject.chars) <= 0) )
       /\ is_email_valid(GetAttr(message.reply_to, message.sender))

\* addresses and subjects of the inbound messages that are enumerated
SENDER == Str(<<"s", "e", "n", "d", "e", "r", "@", "e", "x", "a", "m", "p", "l", "e", ".", "n", "e", "t">>)
REPLY_TO == Str(<<"r", "e", "p", "l", "y", "@", "e", "x", "a", "m", "p", "l", "e", ".", "n", "e", "t">>)
BLANK == Str(<<" ">>)
SUBJECT == Str(<<"h", "e", "r", "e", "'", "s", " ", "a", " ", "s", "a", "m", "p", "l", "e">>)

\* the header fields of the inbound messages that are enumerated: none of
\* Authentication-Results, one that passes spf, one that passes dkim, both
Originals ==
    { <<>>,
      << <<<<"S", "u", "b", "j", "e", "c", "t">>, SUBJECT.chars>>,
         <<<<"A", "u", "t", "h", "e", "n", "t", "i", "c", "a", "t", "i", "o", "n", "-", "R", "e", "s", "u", "l", "t", "s">>, GOOGLE_SPF_PASS.chars>> >>,
      << <<<<"a", "u", "t", "h", "e", "n", "t", "i", "c", "a", "t", "i", "o", "n", "-", "r", "e", "s", "u", "l", "t", "s">>, GMR_DKIM_PASS.chars>> >>,
      << <<<<"A", "u", "t", "h", "e", "n", "t", "i", "c", "a", "t", "i", "o", "n", "-", "R", "e", "s", "u", "l", "t", "s">>, GMR_DKIM_PASS.chars>>,
         <<<<"S", "u", "b", "j", "e", "c", "t">>, SUBJECT.chars>>,
         <<<<"A", "u", "t", "h", "e", "n", "t", "i", "c", "a", "t", "i", "o", "n", "-", "R", "e", "s", "u", "l", "t", "s">>, GOOGLE_SPF_PASS.chars>> >> }

TEXT_PLAIN == <<"t", "e", "x", "t", "/", "p", "l", "a", "i", "n">>
TEXT_HTML == <<"t", "e", "x", "t", "/", "h", "t", "m", "l">>

\* the body parts of the inbound messages that are enumerated, each with
\* its content type and the string its payload decodes to
BodyLists ==
    { <<>>,
      << [content_type |-> TEXT_HTML, payload |-> <<"<", "p", ">", "h", "i", "<", "/", "p", ">">>] >>,
      << [content_type |-> TEXT_HTML, payload |-> <<"<", "p", ">", "h", "i", "<", "/", "p", ">">>],
         [content_type |-> TEXT_PLAIN, payload |-> <<"h", "i", "\n">>],
         [content_type |-> TEXT_PLAIN, payload |-> <<"b", "y", "e">>] >> }

\* the inbound messages: every combination of sender, subject and reply_to
\* without header fields and body parts, and a message that is forwarded
\* with every combination of header fields and body parts
Messages ==
    [ sender : {Absent, Str(<<>>), SENDER, BLANK},
      subject : {Absent, Str(<<>>), SUBJECT},
      reply_to : {Absent, REPLY_TO, BLANK},
      original : {<<>>},
      bodies : {<<>>} ]
    \cup
    [ sender : {SENDER},
      subject : {SUBJECT},
      reply_to : {Absent},
      original : Originals,
      bodies : BodyLists ]

RECURSIVE get_first_body(_, _)
\* main.py 154-171: the first body part of the content type, decoded, or ""
get_first_body(bodies, content_type) ==
    IF bodies = <<>> THEN <<>>
    ELSE IF Head(bodies).content_type = content_type THEN Head(bodies).payload
    ELSE get_first_body(Tail(bodies), content_type)

RECURSIVE Join(_)
\* ''.join(parts)
Join(parts) == IF parts = <<>> THEN <<>> ELSE Head(parts) \o Join(Tail(parts))

\* main.py 249-250: 'This email failed {0} authentication.\n'.format(method.upper())
FailureNote(m) == <<"T", "h", "i", "s", " ", "e", "m", "a", "i", "l", " ", "f", "a", "i", "l", "e", "d", " ">> \o Upper(m) \o <<" ", "a", "u", "t", "h", "e", "n", "t", "i", "c", "a", "t", "i", "o", "n", ".", "\n">>

RECURSIVE FailureNotesUnseparated(_, _, _)
\* a plausible slip: no line between two notes
FailureNotesUnseparated(hs, methods, body) ==
    IF methods = <<>> THEN body
    ELSE IF verify_headers(hs, Str(Head(methods)), DEFAULT_ACCEPT, DEFAULT_DOMAIN) = "False"
         THEN FailureNotesUnseparated(hs, Tail(methods),
                  Append(body, FailureNote(Head(methods))))
         ELSE FailureNotesUnseparated(hs, Tail(methods), body)

RECURSIVE FailureNotes(_, _, _)
\* main.py 245-250: the loop over the methods, from the list text_body
FailureNotes(hs, methods, body) ==
    IF methods = <<>> THEN body
    ELSE IF verify_headers(hs, Str(Head(methods)), DEFAULT_ACCEPT, DEFAULT_DOMAIN) = "False"
         THEN FailureNotes(hs, Tail(methods),
                  (IF Len(body) > 0 THEN Append(body, <<"\n">>) ELSE body)
                      \o <<FailureNote(Head(methods))>>)
         ELSE FailureNotes(hs, Tail(methods), body)

\* main.py 242-256: the text body of the forward
TextBody(message) ==
    LET hs == get_mail_headers(Object("InboundEmailMessage", message.original),
                               AUTHENTICATION_HEADER_NAME)
        body == FailureNotes(hs, <<SPF.chars, DKIM.chars>>, <<>>)
    IN IF Len(body) <= 0 THEN get_first_body(message.bodies, TEXT_PLAIN)
       ELSE Join(body \o << <<"\n">>, get_first_body(message.bodies, TEXT_PLAIN) >>)

\* the text body of each inbound message, as a table that is built once
\* (@@ turns the function into its table)
TextBodyOf == [message \in Messages |-> TextBody(message)] @@ [message \in {} |-> <<>>]

\* a plausible slip: OverQuotaError is not caught
deflect_uncaught(message, outcome) ==
    IF ~ShouldForward(message)
    THEN [attempted |-> FALSE, text_body |-> <<>>, logged |-> FALSE, raised |-> FALSE]
    ELSE [attempted |-> TRUE, text_body |-> TextBodyOf[message],
          logged |-> FALSE, raised |-> outcome = "OverQuotaError"]

\* main.py 225-270: what deflect does with a message when the transport
\* answers the send with outcome: whether it calls the transport and with
\* which text body, whether it logs the quota error, whether it raises
deflect(message, outcome) ==
    IF ~ShouldForward(message)
    THEN [attempted |-> FALSE, text_body |-> <<>>, logged |-> FALSE, raised |-> FALSE]
    ELSE [attempted |-> TRUE, text_body |-> TextBodyOf[message],
          logged |-> outcome = "OverQuotaError", raised |-> FALSE]

\* main.py 211-223: the response is '' when the handler returns; an
\* exception of the handler passes through
timeit(call) == IF call.raised THEN "exception" ELSE "200 empty"

\* what mail.send_mail_to_admins does: it returns, or raises OverQuotaError
TransportOutcomes == {"sent", "OverQuotaError"}

\* the server after start-up (main.py 278-290): nothing handled yet
Init ==
    /\ pc = "serving"
    /\ ServerIdle
    /\ HeadersIdle
    /\ content = None
    /\ stripped = <<>>
    /\ restripped = <<>>
    /\ headers = None
    /\ method = None
    /\ accepted = None
    /\ authserv_domain = None
    /\ verdict = ""

\* POST to the support route: deflect under timeit (main.py 211-270).  The
\* send is attempted once; OverQuotaError is caught and logged; timeit
\* returns the empty response.
PostSupport ==
    /\ pc = "serving"
    /\ Len(handled) < MaxRequests
    /\ \E message \in Messages, outcome \in TransportOutcomes :
          LET call == deflect(message, outcome)
          IN /\ handled' = Append(handled, [route |-> "support", message |-> message])
             /\ attempts' = IF call.attempted THEN attempts + 1 ELSE attempts
             /\ transport' = IF call.attempted THEN outcome ELSE "none"
             /\ text_body' = call.text_body
             /\ over_quota' = IF call.logged THEN over_quota + 1 ELSE over_quota
             /\ response' = timeit(call)
    /\ UNCHANGED <<pc, stripVars, verifyVars, headerVars>>

\* POST to the catch-all route: sink under timeit (main.py 272-275) logs a
\* warning and sends nothing
PostCatchall ==
    /\ pc = "serving"
    /\ Len(handled) < MaxRequests
    /\ \E message \in Messages :
          handled' = Append(handled, [route |-> "catchall", message |-> message])
    /\ transport' = "none"
    /\ text_body' = <<>>
    /\ response' = timeit([raised |-> FALSE])
    /\ UNCHANGED <<pc, attempts, over_quota, stripVars, verifyVars, headerVars>>

Next == PostSupport \/ PostCatchall

Spec == Init /\ [][Next]_vars

---------------------------------------------------------------------------
(* Claims about remove_comments, checked under SpecStrip.                   *)

\* the number of "(" minus the number of ")" among the first i characters
Nesting(s, i) ==
    Cardinality({k \in 1..i : s[k] = "("}) - Cardinality({k \in 1..i : s[k] = ")"})

\* index i holds a character that is not whitespace and not a parenthesis,
\* and the parentheses before it leave the nesting level at or below zero
IsContentStart(s, i) ==
    /\ i < Len(s)
    /\ ~IsSpace(s[i + 1])
    /\ s[i + 1] \notin {"(", ")"}
    /\ Nesting(s, i) <= 0

\* index j is the end of the string, a whitespace character or a "("
IsContentEnd(s, j) == j = Len(s) \/ IsSpace(s[j + 1]) \/ s[j + 1] = "("

Least(S) == CHOOSE x \in S : \A y \in S : x <= y

\* the run the contract describes, stated without the loops
FirstRun(s) ==
    LET starts == {i \in 0..(Len(s) - 1) : IsContentStart(s, i)}
    IN IF starts = {} THEN <<>>
       ELSE LET first == Least(starts)
                last == Least({j \in first..Len(s) : IsContentEnd(s, j)})
            IN Slice(s, first, last)

\* C7: for every string, remove_comments returns the run that starts at the
\* first non-space, non-parenthesis character at nesting level <= 0 and ends
\* just before the next whitespace or "(" (or at the end of the string), and
\* the empty string when there is no such run.
C7_FirstRun ==
    pc \in {"stripped", "restripped"} => stripped = FirstRun(content.chars)

\* a call whose argument holds a nested comment, an unmatched ")" before the
\* content and a comment after it
C7_Witness ==
    /\ pc = "stripped"
    /\ content.chars = <<")", "a", "(", "a", ")">>
    /\ stripped = <<"a">>

\* C8: remove_comments is idempotent, unbalanced parentheses included.
C8_Idempotent == pc = "restripped" => restripped = stripped

\* a second call on a result that was cut out of an unbalanced argument
C8_Witness ==
    /\ pc = "restripped"
    /\ content.chars = <<"(", ")", ")", "a", ")">>
    /\ stripped = <<"a", ")">>
    /\ restripped = <<"a", ")">>

\* the string holds no parenthesis and no whitespace
IsBareToken(s) == \A k \in 1..Len(s) : s[k] \notin {"(", ")"} /\ ~IsSpace(s[k])

\* the string is made of balanced parenthesised comments and whitespace only
IsOnlyComments(s) ==
    /\ \A i \in 0..Len(s) : Nesting(s, i) >= 0
    /\ Nesting(s, Len(s)) = 0
    /\ \A i \in 0..(Len(s) - 1) :
         (s[i + 1] \notin {"(", ")"} /\ ~IsSpace(s[i + 1])) => Nesting(s, i) > 0

\* C9: a string without parentheses and whitespace is returned unchanged, and
\* a string of balanced comments and whitespace only gives the empty string.
C9_TokenAndComments ==
    pc = "stripped" =>
        /\ IsBareToken(content.chars) => stripped = content.chars
        /\ IsOnlyComments(content.chars) => stripped = <<>>

\* a call on a nested comment with text inside
C9_Witness ==
    /\ pc = "stripped"
    /\ content.chars = <<"(", "(", "a", ")", ")">>
    /\ IsOnlyComments(content.chars)
    /\ stripped = <<>>

---------------------------------------------------------------------------
(* Claims about verify_headers, checked under SpecVerify.                  *)

\* the call has ended, by a return or by an error
VerifyEnded == pc \in {"returned", "raised"}

\* the leading piece of a header value: the text before the first ";" that
\* is not inside double quotes, stripped
LeadingToken(line) == ParseParam(<<";">> \o line)[1]

\* the key=value pairs written in a header value, in the order of the text
DeclaredPairs(line) == ParamPairs(Tail(ParseParam(<<";">> \o line)))

\* the comment-stripped, lowercased authserv-id of h ends with domain
DomainMatches(h, domain) ==
    IsStr(h) /\ EndsWith(Lower(remove_comments(LeadingToken(h.chars))), domain)

\* header value h passes the domain test and declares a pair whose key is
\* the method m and whose value is in accepted_set
DeclaresAccepted(h, m, accepted_set, domain) ==
    /\ DomainMatches(h, domain)
    /\ \E k \in 1..Len(DeclaredPairs(h.chars)) :
          /\ Lower(remove_comments(DeclaredPairs(h.chars)[k].name)) = m
          /\ Lower(remove_comments(DeclaredPairs(h.chars)[k].value)) \in accepted_set

\* C1 (as claimed): verify_headers returns true whenever some header value
\* passes the domain test and declares a pair for the method with an accepted
\* result, whatever the position of that pair and whatever any other pair
\* says, another pair for the same method in the same header value included.
C1_AnyDeclaredPairWins ==
    ( /\ pc = "returned"
      /\ headers.type = "list"
      /\ IsStr(method) /\ IsStr(authserv_domain) /\ IsIterable(accepted)
      /\ \E k \in 1..Len(headers.items) :
            DeclaresAccepted(headers.items[k], Lower(method.chars),
                             AcceptedSet(accepted), Lower(authserv_domain.chars)) )
    => verdict = "True"

\* C2: header values are OR-combined: for every split of the list of header
\* values into h1 followed by h2, the call on the whole list returns true
\* exactly when the call on h1 or the call on h2 returns true.
C2_OrCombined ==
    (VerifyEnded /\ headers.type = "list") =>
        \A k \in 0..Len(headers.items) :
            (verdict = "True") <=>
                \/ verify_headers(List(SubSeq(headers.items, 1, k)),
                                  method, accepted, authserv_domain) = "True"
                \/ verify_headers(List(SubSeq(headers.items, k + 1, Len(headers.items))),
                                  method, accepted, authserv_domain) = "True"

\* a header value of another domain before the one that matches
C2_Witness ==
    /\ pc = "returned"
    /\ headers = List(<<EXAMPLE_SPF_PASS, GOOGLE_SPF_PASS>>)
    /\ method = SPF
    /\ accepted = DEFAULT_ACCEPT
    /\ authserv_domain = DEFAULT_DOMAIN
    /\ verdict = "True"

\* the text of a header value before its first ";", quoted or not
BeforeFirstSemicolon(line) ==
    IF Find(line, ";", 0) < 0 THEN line ELSE Slice(line, 0, Find(line, ";", 0))

\* C3 (as claimed): a header value contributes to a true result only if the
\* part before its first ";", comment-stripped and lowercased, ends with the
\* lowercased authserv_domain.
C3_BeforeFirstSemicolon ==
    (pc = "returned" /\ headers.type = "list" /\ IsStr(authserv_domain)
        /\ verdict = "True") =>
        \E k \in 1..Len(headers.items) :
            /\ IsStr(headers.items[k])
            /\ EndsWith(Lower(remove_comments(BeforeFirstSemicolon(headers.items[k].chars))),
                        Lower(authserv_domain.chars))

\* C3 (amended): a true result needs a header value that passes the domain
\* test (its leading token, the part before the first ";" that is not inside
\* double quotes, comment-stripped and lowercased, ends with the lowercased
\* authserv_domain) and gives true on its own; a header value that fails the
\* test gives false on its own whatever its pairs say; with the empty domain
\* every header value passes, one with an empty authserv-id included.  The
\* three header values of the examples give the results stated.
C3_DomainSuffix ==
    (pc = "returned" /\ headers.type = "list" /\ IsStr(authserv_domain)) =>
        LET domain == Lower(authserv_domain.chars)
            Alone(h) == verify_headers(List(<<h>>), method, accepted, authserv_domain)
        IN /\ verdict = "True" =>
                 \E k \in 1..Len(headers.items) :
                     DomainMatches(headers.items[k], domain) /\ Alone(headers.items[k]) = "True"
           /\ \A k \in 1..Len(headers.items) :
                 ~DomainMatches(headers.items[k], domain) => Alone(headers.items[k]) = "False"
           /\ authserv_domain = Str(<<>>) =>
                 \A k \in 1..Len(headers.items) :
                     IsStr(headers.items[k]) => DomainMatches(headers.items[k], domain)
           /\ (method = SPF /\ accepted = DEFAULT_ACCEPT) =>
                 /\ (headers = List(<<EXAMPLE_SPF_PASS>>) /\ authserv_domain = DEFAULT_DOMAIN)
                        => verdict = "False"
                 /\ (headers = List(<<EXAMPLE_SPF_PASS>>) /\ authserv_domain = EXAMPLE_DOMAIN)
                        => verdict = "True"
                 /\ (headers = List(<<NO_ID_SPF_PASS>>) /\ authserv_domain = Str(<<>>))
                        => verdict = "True"
           /\ (headers = List(<<GMR_DKIM_PASS>>) /\ method = DKIM /\ accepted = DEFAULT_ACCEPT
                 /\ authserv_domain = DEFAULT_DOMAIN) => verdict = "True"

\* the sub-service gmr-mx.google.com is accepted for the domain mx.google.com
C3_Witness ==
    /\ pc = "returned"
    /\ headers = List(<<EXAMPLE_SPF_PASS, GMR_DKIM_PASS>>)
    /\ method = DKIM
    /\ accepted = DEFAULT_ACCEPT
    /\ authserv_domain = DEFAULT_DOMAIN
    /\ ~DomainMatches(EXAMPLE_SPF_PASS, Lower(authserv_domain.chars))
    /\ verdict = "True"

\* the call of scenario 4: the comment-heavy header value alone, the default
\* domain
IsCommentHeavyCall ==
    /\ pc = "returned"
    /\ headers = List(<<COMMENT_HEAVY>>)
    /\ authserv_domain = DEFAULT_DOMAIN

\* C4 (as claimed): on the comment-heavy header value, method "dkim" with
\* accepted {"pass"} gives true, and method "policy" with accepted
\* {"1362471462"} gives true.
C4_CommentHeavyAsClaimed ==
    IsCommentHeavyCall =>
        /\ (method = DKIM /\ accepted = DEFAULT_ACCEPT) => verdict = "True"
        /\ (method = POLICY /\ accepted = ACCEPT_TIMESTAMP) => verdict = "True"

\* C4 (amended): on the comment-heavy header value, method "dkim" with
\* accepted {"pass"} gives true, and method "policy" with accepted
\* {"1362471462"} gives false: the text holds no ";" after the dkim key, so
\* all of it after the first "=" is the value of the dkim pair.
C4_CommentHeavy ==
    IsCommentHeavyCall =>
        /\ (method = DKIM /\ accepted = DEFAULT_ACCEPT) => verdict = "True"
        /\ (method = POLICY /\ accepted = ACCEPT_TIMESTAMP) => verdict = "False"
        /\ Len(DeclaredPairs(COMMENT_HEAVY.chars)) = 1

\* the call for method "policy" has returned
C4_Witness ==
    /\ IsCommentHeavyCall
    /\ method = POLICY
    /\ accepted = ACCEPT_TIMESTAMP
    /\ verdict = "False"

C6_NeverRaises == VerifyEnded => verdict \in {"True", "False"}

\* C6 (amended): verify_headers raises TypeError exactly when headers has
\* no length (it is not a list or string), or when headers is not empty,
\* method is a non-empty string and accepted is not iterable.  In every other
\* case it returns true or false; elements of headers or accepted that are
\* not strings are passed over, and a method or authserv_domain that is not
\* a string gives false.
C6_RaisesOnlyWithoutLenOrIter ==
    VerifyEnded =>
        /\ verdict \in {"True", "False", "TypeError"}
        /\ verdict = "TypeError" <=>
              \/ ~HasLen(headers)
              \/ /\ PyLen(headers) > 0
                 /\ IsStr(method) /\ method # Str(<<>>)
                 /\ ~IsIterable(accepted)
        /\ (HasLen(headers) /\ IsIterable(accepted)
              /\ (~IsStr(method) \/ ~IsStr(authserv_domain))) => verdict = "False"

\* a list holding an element that is not a string, before a header value
\* that matches
C6_Witness ==
    /\ pc = "returned"
    /\ headers = List(<<None, GOOGLE_SPF_PASS>>)
    /\ method = SPF
    /\ accepted = DEFAULT_ACCEPT
    /\ authserv_domain = DEFAULT_DOMAIN
    /\ verdict = "True"

---------------------------------------------------------------------------
(* Claims about the request handlers, checked under Spec.                  *)

\* the message has a non-empty sender, a non-empty subject and an origin
\* address (reply-to if present, else sender) that the validator accepts
IsForwardable(message) ==
    /\ message.sender \notin {Absent, Str(<<>>)}
    /\ message.subject \notin {Absent, Str(<<>>)}
    /\ is_email_valid(IF message.reply_to # Absent
                      THEN message.reply_to ELSE message.sender)

\* C10: after any sequence of requests, the number of send attempts equals
\* the number of POSTs to the support route whose message has a non-empty
\* sender, a non-empty subject and a valid origin address; every other
\* message, and every message posted to the catch-all route, causes none.
C10_OneAttemptPerValidPost ==
    attempts = Cardinality({k \in 1..Len(handled) :
                               /\ handled[k].route = "support"
                               /\ IsForwardable(handled[k].message)})

\* the same valid message delivered twice to the support route, after which
\* two sends have been attempted
C10_Witness ==
    /\ Len(handled) = 2
    /\ handled[1] = handled[2]
    /\ handled[1].route = "support"
    /\ handled[1].message = [sender |-> BLANK, subject |-> SUBJECT, reply_to |-> REPLY_TO,
                             original |-> <<>>, bodies |-> <<>>]
    /\ attempts = 2

---------------------------------------------------------------------------
(* Claims about the text body of a forward, checked under Spec.            *)

\* the request handled last
LastRequest == handled[Len(handled)]

\* the last request reached the send (forwarded, or failed on quota)
LastWasSent == handled # <<>> /\ transport # "none"

\* the values of the Authentication-Results fields of a message, in order
AuthenticationResults(message) ==
    LET IsAuthenticationResults(field) ==
            Lower(field[1]) = <<"a", "u", "t", "h", "e", "n", "t", "i", "c", "a", "t", "i", "o", "n", "-", "r", "e", "s", "u", "l", "t", "s">>
        fields == SelectSeq(message.original, IsAuthenticationResults)
    IN List([k \in 1..Len(fields) |-> Str(fields[k][2])])

\* the method fails verify_headers with the default accepted set and domain
Fails(message, m) ==
    verify_headers(AuthenticationResults(message), m, DEFAULT_ACCEPT, DEFAULT_DOMAIN) # "True"

\* the first plain-text body part, "" if there is none
FirstPlainText(message) ==
    LET plain == {k \in 1..Len(message.bodies) :
                     message.bodies[k].content_type = <<"t", "e", "x", "t", "/", "p", "l", "a", "i", "n">>}
    IN IF plain = {} THEN <<>> ELSE message.bodies[Least(plain)].payload

SPF_NOTE == <<"T", "h", "i", "s", " ", "e", "m", "a", "i", "l", " ", "f", "a", "i", "l", "e", "d", " ", "S", "P", "F", " ", "a", "u", "t", "h", "e", "n", "t", "i", "c", "a", "t", "i", "o", "n", ".">>
DKIM_NOTE == <<"T", "h", "i", "s", " ", "e", "m", "a", "i", "l", " ", "f", "a", "i", "l", "e", "d", " ", "D", "K", "I", "M", " ", "a", "u", "t", "h", "e", "n", "t", "i", "c", "a", "t", "i", "o", "n", ".">>
BLANK_LINE == <<"\n", "\n">>

\* the body the contract states, by the methods that fail
StatedBody(message) ==
    LET P == FirstPlainText(message)
    IN CASE Fails(message, SPF) /\ Fails(message, DKIM) ->
                SPF_NOTE \o BLANK_LINE \o DKIM_NOTE \o BLANK_LINE \o P
         [] Fails(message, SPF) /\ ~Fails(message, DKIM) ->
                SPF_NOTE \o BLANK_LINE \o P
         [] ~Fails(message, SPF) /\ Fails(message, DKIM) ->
                DKIM_NOTE \o BLANK_LINE \o P
         [] OTHER -> P

\* the stated body of each inbound message, as a table that is built once
StatedBodyOf == [message \in Messages |-> StatedBody(message)] @@ [message \in {} |-> <<>>]

\* C11: the text body given to the send is the first plain-text body part
\* when spf and dkim both verify, and otherwise the notes of the failing
\* methods, spf before dkim, a blank line between them, then a blank line,
\* then the first plain-text body part ("" when there is none).
C11_TextBody ==
    LastWasSent => text_body = StatedBodyOf[LastRequest.message]

\* both methods fail and there is no plain-text body part: the two notes
C11_Witness ==
    /\ LastWasSent
    /\ FirstPlainText(LastRequest.message) = <<>>
    /\ text_body = <<"T", "h", "i", "s", " ", "e", "m", "a", "i", "l", " ", "f", "a", "i", "l", "e", "d", " ", "S", "P", "F", " ", "a", "u", "t", "h", "e", "n", "t", "i", "c", "a", "t", "i", "o", "n", ".", "\n", "\n", "T", "h", "i", "s", " ", "e", "m", "a", "i", "l", " ", "f", "a", "i", "l", "e", "d", " ", "D", "K", "I", "M", " ", "a", "u", "t", "h", "e", "n", "t", "i", "c", "a", "t", "i", "o", "n", ".", "\n", "\n">>

---------------------------------------------------------------------------
(* Claims about the responses and the quota of the transport, under Spec.  *)

\* C12: every POST handled, on the support route or on the catch-all
\* route, ends with the empty success response, whether the message was
\* forwarded, rejected, sunk or met OverQuotaError; a send that meets
\* OverQuotaError is one call of the transport, not repeated, and the
\* error is caught and logged.
C12_QuotaCaught ==
    [][ /\ response' = "200 empty"
        /\ transport' = "OverQuotaError" =>
              /\ attempts' = attempts + 1
              /\ over_quota' = over_quota + 1 ]_vars

\* the send of the last request met OverQuotaError and the request ended
\* with the empty success response
C12_Witness ==
    /\ handled # <<>>
    /\ LastRequest.route = "support"
    /\ transport = "OverQuotaError"
    /\ attempts = 1
    /\ over_quota = 1
    /\ response = "200 empty"

---------------------------------------------------------------------------
(* Claims about get_mail_headers, checked under SpecHeaders.               *)

\* the argument is an inbound message or a message of email.message
IsRecognised(mail) == mail.kind \in {"InboundEmailMessage", "Message"}

\* the positions of the header fields of the name, letters of either case
Occurrences(mail, name) ==
    {k \in 1..Len(mail.fields) : Lower(mail.fields[k][1]) = Lower(name)}

\* the k-th of a finite set of numbers, in increasing order
RECURSIVE Nth(_, _)
Nth(S, k) == IF k = 1 THEN Least(S) ELSE Nth(S \ {Least(S)}, k - 1)

\* C13: a call of get_mail_headers returns a list, whatever the arguments;
\* for an inbound message or a message of email.message and a string
\* header name the list holds the value of each field of that name, one
\* entry per occurrence, in the order of the fields (the empty list when
\* there is none); for any other object or a header name that is not a
\* string it is the empty list.
C13_AllValuesInOrder ==
    (pc = "got") =>
        /\ values.type = "list"
        /\ IF IsRecognised(mail_message) /\ IsStr(header_name)
           THEN LET found == Occurrences(mail_message, header_name.chars)
                IN /\ Len(values.items) = Cardinality(found)
                   /\ \A k \in 1..Len(values.items) :
                         values.items[k] = Str(mail_message.fields[Nth(found, k)][2])
           ELSE values.items = <<>>

\* a header that the message gives twice comes back with both values
C13_Witness ==
    /\ pc = "got"
    /\ IsRecognised(mail_message)
    /\ IsStr(header_name)
    /\ Len(values.items) = 2
    /\ values.items[1] # values.items[2]

---------------------------------------------------------------------------
(* A claim about the shape of what remove_comments returns, under          *)
(* SpecStrip.                                                              *)

\* the positions at which r stands in s as a run of neighbouring characters
PositionsOf(r, s) ==
    {a \in 0..(Len(s) - Len(r)) : Slice(s, a, a + Len(r)) = r}

\* every ")" of the string is matched by an earlier "("
NeverNegative(s) == \A i \in 0..Len(s) : Nesting(s, i) >= 0

\* C14: the value remove_comments returns for a string is a contiguous
\* substring of it that holds no whitespace and no "(" and does not begin
\* with ")"; when the nesting count of the string never goes below zero the
\* value holds no parenthesis at all, and a non-empty value begins where
\* the first loop stops, at nesting level zero, outside every comment.
C14_ShapeOfResult ==
    (pc \in {"stripped", "restripped"}) =>
        LET s == content.chars
            start_index == ScanStart(s, 0, 0)
        IN /\ PositionsOf(stripped, s) # {}
           /\ \A k \in 1..Len(stripped) : ~IsSpace(stripped[k]) /\ stripped[k] # "("
           /\ stripped # <<>> => stripped[1] # ")"
           /\ NeverNegative(s) =>
                 /\ \A k \in 1..Len(stripped) : stripped[k] \notin {"(", ")"}
                 /\ stripped # <<>> =>
                       /\ start_index \in PositionsOf(stripped, s)
                       /\ Nesting(s, start_index) = 0

\* a call on a string with an unmatched ")" after the start of the content:
\* the value holds the ")" but no "(" and no whitespace
C14_Witness ==
    /\ pc = "stripped"
    /\ content.chars = <<" ", "a", ")", "a", "(">>
    /\ stripped = <<"a", ")", "a">>

===========================================================================
